---- MODULE Spec2Model ----
(***************************************************************************)
(* kScript: lexer, shunting-yard parser, block resolver, postfix evaluator *)
(* and the batch driver (ParseFile -> Compile -> Execute) of               *)
(* OpenAssignment.cpp.                                                     *)
(*                                                                         *)
(* A source line is a sequence of one-character strings.  Numbers are      *)
(* modelled as integers: a numeric literal of the source is a run of       *)
(* digits ('.' is punctuation for the lexer), and the programs explored    *)
(* only apply arithmetic whose result is an integer (see OutOfModel).      *)
(* Line indices are 0-based as in the code; positions in a line and in the *)
(* run-line vector are 1-based sequences, so run line k is                 *)
(* scriptRunLines[k + 1].                                                  *)
(***************************************************************************)
EXTENDS Integers, Sequences, FiniteSets, TLC

VARIABLES fileLines, scriptCompileLines, scriptRunLines, phase,
          curCompileLineIter, curRunLineIter, nestStack, slotMem,
          beginToEndMap, endToBeginMap, ifResultStack, scriptVariables,
          nextVarId, out, errMsg, trace, depthBefore, poppedEmpty,
          lastTest, lastJumps, lookupMissed, lastFinalSize

vars == <<fileLines, scriptCompileLines, scriptRunLines, phase,
          curCompileLineIter, curRunLineIter, nestStack, slotMem,
          beginToEndMap, endToBeginMap, ifResultStack, scriptVariables,
          nextVarId, out, errMsg, trace, depthBefore, poppedEmpty,
          lastTest, lastJumps, lookupMissed, lastFinalSize>>

-----------------------------------------------------------------------------
(* Bounds *)

\* longest generated block program, in lines
MaxLines == 4
\* number of run lines Execute may evaluate before the model stops following it
MaxSteps == 12
\* longest generated assignment program, in lines
MaxAssignLines == 3
\* longest variable name the name check recognises, in characters
MaxNameLen == 2

-----------------------------------------------------------------------------
(* Characters: isspace / isalnum / ispunct of <cctype> on the characters used *)

Digits == {"0", "1", "2", "3", "4", "5", "6", "7", "8", "9"}
Letters == {"a", "b", "c", "d", "e", "f", "g", "h", "i", "j", "k", "l", "m",
            "n", "o", "p", "q", "r", "s", "t", "u", "v", "w", "x", "y", "z"}
Quote == "\""

IsSpace(ch) == ch \in {" ", "\t"}
IsAlnum(ch) == ch \in Digits \cup Letters
IsPunct(ch) == ~IsSpace(ch) /\ ~IsAlnum(ch)

RECURSIVE Concat(_)
Concat(chars) ==
    IF chars = <<>> THEN "" ELSE Head(chars) \o Concat(Tail(chars))

DigitVal(ch) ==
    CASE ch = "0" -> 0 [] ch = "1" -> 1 [] ch = "2" -> 2 [] ch = "3" -> 3
      [] ch = "4" -> 4 [] ch = "5" -> 5 [] ch = "6" -> 6 [] ch = "7" -> 7
      [] ch = "8" -> 8 [] ch = "9" -> 9

-----------------------------------------------------------------------------
(* Maps: std::map<int, ...>; operator[] on a missing key inserts the default *)

EmptyMap == [k \in {} |-> 0]
MapPut(m, k, v) == [x \in (DOMAIN m) \cup {k} |-> IF x = k THEN v ELSE m[x]]
Top(s) == s[Len(s)]
Pop(s) == SubSeq(s, 1, Len(s) - 1)

-----------------------------------------------------------------------------
(* Operator and function registries *)

\* Operator::Operator stores 0 in numOperands whatever its third argument is
Operator(operator_, precedence, numOperands, cls, operations) ==
    [operator_ |-> operator_, precedence |-> precedence, numOperands |-> 0,
     cls |-> cls, operations |-> operations, isFunction |-> FALSE]

DualOperandOperator(operator_, precedence, operations) ==
    Operator(operator_, precedence, 2, "dual", operations)

SingleOperandOperator(operator_, precedence, operations) ==
    Operator(operator_, precedence, 1, "single", operations)

s_operators ==
    << DualOperandOperator("=", 2, <<"Assign">>),
       DualOperandOperator("||", 5, <<"LogicalOr">>),
       DualOperandOperator("&&", 7, <<"LogicalAnd">>),
       DualOperandOperator("==", 13, <<"Equals">>),
       DualOperandOperator("!=", 15, <<"NotEquals">>),
       DualOperandOperator(">", 15, <<"GT">>),
       DualOperandOperator("<", 15, <<"LT">>),
       DualOperandOperator(">=", 15, <<"GTE">>),
       DualOperandOperator("<=", 15, <<"LTE">>),
       DualOperandOperator("|", 16, <<"BitwiseOr">>),
       DualOperandOperator("&", 16, <<"BitwiseAnd">>),
       DualOperandOperator("<<", 18, <<"LeftShift">>),
       DualOperandOperator(">>", 18, <<"RightShift">>),
       DualOperandOperator("+", 19, <<"Add", "StringAdd">>),
       DualOperandOperator("-", 19, <<"Subtract">>),
       DualOperandOperator("*", 21, <<"Multiply">>),
       DualOperandOperator("/", 21, <<"Divide">>),
       DualOperandOperator("%", 21, <<"Modulo">>),
       DualOperandOperator("^", 23, <<"Pow">>),
       SingleOperandOperator("-", 25, <<"Negate">>),
       SingleOperandOperator("!", 27, <<"LogicalNot">>),
       Operator("(", 80, 0, "plain", <<>>),
       Operator(")", 80, 0, "plain", <<>>) >>

\* Function::Function: every function has precedence 23
Function(name, numParams) ==
    [name |-> name, precedence |-> 23, numParams |-> numParams,
     isFunction |-> TRUE]

s_functions ==
    << Function("sqrt", 1), Function("print", 1), Function("if", 1),
       Function("else", 0), Function("elseif", 1), Function("end", 0),
       Function("while", 1) >>

\* Tokens of a postfix line
NumericConstantToken(value) == [t |-> "num", value |-> value]
StringConstantToken(value) == [t |-> "str", value |-> value]
OperatorToken(i) == [t |-> "op", value |-> s_operators[i], index |-> i]
FunctionCallToken(i) == [t |-> "fn", value |-> s_functions[i]]

IsOpenBracket(token) == token.t = "op" /\ token.value.operator_ = "("
IsClosedBracket(token) == token.t = "op" /\ token.value.operator_ = ")"

PrecedesStrict(self, other) ==
    other.precedence < self.precedence

\* OperatorOrFunction::Precedes: self is the stacked entry, other the incoming
Precedes(self, other) ==
    IF ~other.isFunction /\ other.numOperands = 1
    THEN other.precedence < self.precedence
    ELSE other.precedence <= self.precedence

-----------------------------------------------------------------------------
(* StringIterator: the lexer.  pos is 1-based; End() is pos = Len(line)+1 *)

RECURSIVE OperandEnd(_, _)
OperandEnd(line, pos) ==
    IF pos > Len(line) THEN pos
    ELSE IF IsSpace(line[pos]) \/ (IsPunct(line[pos]) /\ line[pos] # "_")
         THEN pos
         ELSE OperandEnd(line, pos + 1)

\* the characters of the operand run starting at pos, and the position after
GetCurOperandString(line, pos) ==
    [chars |-> SubSeq(line, pos, OperandEnd(line, pos) - 1),
     pos |-> OperandEnd(line, pos)]

RECURSIVE OperatorEnd(_, _)
OperatorEnd(line, pos) ==
    IF pos > Len(line) THEN pos
    ELSE IF IsAlnum(line[pos]) \/ IsSpace(line[pos]) \/ line[pos] = Quote
         THEN pos
         ELSE OperatorEnd(line, pos + 1)

GetCurOperatorString(line, pos) ==
    [str |-> Concat(SubSeq(line, pos, OperatorEnd(line, pos) - 1)),
     pos |-> OperatorEnd(line, pos)]

\* first registry entry with that symbol: 0 when there is none
LookupOperator(opStr) ==
    IF \E i \in 1..Len(s_operators) : s_operators[i].operator_ = opStr
    THEN CHOOSE i \in 1..Len(s_operators) :
            /\ s_operators[i].operator_ = opStr
            /\ \A j \in 1..(i - 1) : s_operators[j].operator_ # opStr
    ELSE 0

\* kind "none": no operator at pos; "op": token found; "error": unsupported
ParseOperator(line, pos) ==
    LET o == GetCurOperatorString(line, pos)
        i == LookupOperator(o.str)
    IN  IF o.str = "" THEN [kind |-> "none", pos |-> pos]
        ELSE IF i = 0
             THEN [kind |-> "error", pos |-> o.pos,
                   msg |-> "Unsupported operator " \o o.str]
             ELSE [kind |-> "op", pos |-> o.pos, token |-> OperatorToken(i)]

\* position after the closing quote, 0 when there is none (find_first_of)
RECURSIVE FindQuote(_, _)
FindQuote(line, pos) ==
    IF pos > Len(line) THEN 0
    ELSE IF line[pos] = Quote THEN pos ELSE FindQuote(line, pos + 1)

GetStringInQuotationMarks(line, pos) ==
    LET fPos == FindQuote(line, pos + 1)
    IN  IF fPos = 0
        THEN [ok |-> FALSE, msg |-> "Mismatched quotation marks (\")"]
        ELSE [ok |-> TRUE, str |-> Concat(SubSeq(line, pos + 1, fPos - 1)),
              pos |-> fPos + 1]

\* std::stod on an operand run: the value of its leading digits; the run has
\* no sign and no '.', and the inputs use no exponent, hex, inf or nan form
RECURSIVE DigitsValue(_, _)
DigitsValue(chars, acc) ==
    IF chars = <<>> \/ Head(chars) \notin Digits THEN acc
    ELSE DigitsValue(Tail(chars), 10 * acc + DigitVal(Head(chars)))

ParseNumericConstant(chars) ==
    IF chars # <<>> /\ Head(chars) \in Digits
    THEN [ok |-> TRUE, token |-> NumericConstantToken(DigitsValue(chars, 0))]
    ELSE [ok |-> FALSE]

\* index of the function of that name in s_functions, 0 when there is none
ParseFunctionCall(opStr) ==
    IF \E i \in 1..Len(s_functions) : s_functions[i].name = opStr
    THEN CHOOSE i \in 1..Len(s_functions) : s_functions[i].name = opStr
    ELSE 0

-----------------------------------------------------------------------------
(* Block resolver: the ValidateCompilation hooks.  m is the part of the     *)
(* ScriptModule they touch; curLine is GetCurrentCompileLine().            *)
(*                                                                         *)
(* slotMem[d] is the line field last constructed in the d-th element slot  *)
(* of the nest stack's storage.  WhileFunction's onEnd closure captures a  *)
(* reference to the nest-stack element it was created for (slot d), not    *)
(* the line; the element is destroyed when its 'end' pops it.              *)

NestedBeginDeclaration(name, line) == [name |-> name, line |-> line, onEnd |-> 0]

EndToBegin(lineNumber, execute) == [lineNumber |-> lineNumber, execute |-> execute]

PushNest(m, decl) ==
    [m EXCEPT !.nestStack = Append(@, decl),
              !.slotMem = MapPut(@, Len(m.nestStack) + 1, decl.line)]

\* NestedFunction::ValidateCompilation (batch mode: curCompileLineIter is set)
NestedValidateCompilation(name, m, curLine) ==
    [ok |-> TRUE, m |-> PushNest(m, NestedBeginDeclaration(name, curLine))]

\* WhileFunction::ValidateCompilation: top.onEnd refers to the slot of top
WhileValidateCompilation(m, curLine) ==
    LET pushed == NestedValidateCompilation("while", m, curLine).m
        d == Len(pushed.nestStack)
    IN  [ok |-> TRUE, m |-> [pushed EXCEPT !.nestStack[d].onEnd = d]]

ElseValidateCompilationNoTopCheck(name, m, curLine) ==
    IF m.nestStack = <<>>
    THEN [ok |-> FALSE, msg |-> "Misplaced '" \o name \o "' statement", m |-> m]
    ELSE LET top == Top(m.nestStack)
             m1 == [m EXCEPT !.beginToEndMap = MapPut(@, top.line, curLine),
                             !.nestStack = Pop(@)]
         IN  [ok |-> TRUE, m |-> PushNest(m1, NestedBeginDeclaration(name, curLine))]

\* ElseFunction::ValidateCompilation and ElseIfFunction::ValidateCompilation
\* (the same code but for the name)
ElseValidateCompilation(name, m, curLine) ==
    IF m.nestStack = <<>>
    THEN [ok |-> FALSE, msg |-> "Misplaced '" \o name \o "' statement", m |-> m]
    ELSE LET top == Top(m.nestStack)
         IN  IF top.name # "if" /\ top.name # "elseif"
             THEN [ok |-> FALSE,
                   msg |-> "Missing 'if' for '" \o name \o "' statement", m |-> m]
             ELSE LET m1 == [m EXCEPT
                                !.beginToEndMap = MapPut(@, top.line, curLine),
                                !.nestStack = Pop(@)]
                  IN  [ok |-> TRUE,
                       m |-> PushNest(m1, NestedBeginDeclaration(name, curLine))]

EndValidateCompilationSelfLine(m, curLine) ==
    IF m.nestStack = <<>>
    THEN [ok |-> FALSE, m |-> m,
          msg |-> "'end' statement is missing a begin-type statement (if / while / def)"]
    ELSE LET top == Top(m.nestStack)
         IN  [ok |-> TRUE,
              m |-> [m EXCEPT
                       !.beginToEndMap = MapPut(@, top.line, curLine),
                       !.endToBeginMap = MapPut(@, curLine, EndToBegin(curLine, top.onEnd)),
                       !.nestStack = Pop(@)]]

\* EndFunction::ValidateCompilation
EndValidateCompilation(m, curLine) ==
    IF m.nestStack = <<>>
    THEN [ok |-> FALSE, m |-> m,
          msg |-> "'end' statement is missing a begin-type statement (if / while / def)"]
    ELSE LET top == Top(m.nestStack)
         IN  [ok |-> TRUE,
              m |-> [m EXCEPT
                       !.beginToEndMap = MapPut(@, top.line, curLine),
                       !.endToBeginMap = MapPut(@, curLine, EndToBegin(top.line, top.onEnd)),
                       !.nestStack = Pop(@)]]

\* virtual dispatch of Function::ValidateCompilation
ValidateCompilation(name, m, curLine) ==
    CASE name = "if" -> NestedValidateCompilation(name, m, curLine)
      [] name = "while" -> WhileValidateCompilation(m, curLine)
      [] name \in {"else", "elseif"} -> ElseValidateCompilation(name, m, curLine)
      [] name = "end" -> EndValidateCompilation(m, curLine)
      [] OTHER -> [ok |-> TRUE, m |-> m]

-----------------------------------------------------------------------------
(* ParseExpression: shunting-yard over one line.  st.operatorsOrFuncs is   *)
(* the operator stack (top last), st.result the postfix output.            *)

\* the loop of the ')' case: pop to the output until '(' is on top
RECURSIVE PopUntilOpenBracket(_)
PopUntilOpenBracket(st) ==
    IF st.operatorsOrFuncs # <<>> /\ ~IsOpenBracket(Top(st.operatorsOrFuncs))
    THEN PopUntilOpenBracket(
            [st EXCEPT !.result = Append(@, Top(st.operatorsOrFuncs)),
                       !.operatorsOrFuncs = Pop(@)])
    ELSE st

\* the loop of the ordinary-operator case
RECURSIVE PopWhilePrecedes(_, _)
PopWhilePrecedes(st, operator_) ==
    IF /\ st.operatorsOrFuncs # <<>>
       /\ Precedes(Top(st.operatorsOrFuncs).value, operator_.value)
       /\ ~IsOpenBracket(Top(st.operatorsOrFuncs))
    THEN PopWhilePrecedes(
            [st EXCEPT !.result = Append(@, Top(st.operatorsOrFuncs)),
                       !.operatorsOrFuncs = Pop(@)], operator_)
    ELSE st

\* the final loop: everything left on the operator stack goes to the output
RECURSIVE PopAll(_)
PopAll(st) ==
    IF st.operatorsOrFuncs # <<>>
    THEN PopAll([st EXCEPT !.result = Append(@, Top(st.operatorsOrFuncs)),
                           !.operatorsOrFuncs = Pop(@)])
    ELSE st

ParseOperatorCase(st, o) ==
    IF IsClosedBracket(o.token)
    THEN LET p == PopUntilOpenBracket(st)
         IN  IF p.operatorsOrFuncs = <<>>
             THEN [p EXCEPT !.err = "Mismatched brackets"]
             ELSE [p EXCEPT !.operatorsOrFuncs = Pop(@), !.pos = o.pos]
    ELSE LET p == IF ~IsOpenBracket(o.token)
                  THEN PopWhilePrecedes(st, o.token) ELSE st
         IN  [p EXCEPT !.operatorsOrFuncs = Append(@, o.token), !.pos = o.pos]

ParseOperandCase(line, st, curLine) ==
    IF line[st.pos] = Quote
    THEN LET q == GetStringInQuotationMarks(line, st.pos)
         IN  IF ~q.ok THEN [st EXCEPT !.err = q.msg]
             ELSE [st EXCEPT !.result = Append(@, StringConstantToken(q.str)),
                             !.pos = q.pos]
    ELSE LET w == GetCurOperandString(line, st.pos)
             opStr == Concat(w.chars)
             num == ParseNumericConstant(w.chars)
             f == ParseFunctionCall(opStr)
         IN  IF w.chars = <<>> THEN [st EXCEPT !.pos = w.pos]
             ELSE IF num.ok
             THEN [st EXCEPT !.result = Append(@, num.token), !.pos = w.pos]
             ELSE IF f # 0
             THEN LET v == ValidateCompilation(opStr, st.m, curLine)
                  IN  IF ~v.ok THEN [st EXCEPT !.err = v.msg, !.m = v.m]
                      ELSE [st EXCEPT
                              !.operatorsOrFuncs = Append(@, FunctionCallToken(f)),
                              !.m = v.m, !.pos = w.pos]
             ELSE [st EXCEPT !.result = Append(@, StringConstantToken(opStr)),
                             !.pos = w.pos]

RECURSIVE ParseLoop(_, _, _)
ParseLoop(line, st, curLine) ==
    IF st.err # "" THEN st
    ELSE IF st.pos > Len(line) THEN PopAll(st)
    ELSE IF IsSpace(line[st.pos])
         THEN ParseLoop(line, [st EXCEPT !.pos = @ + 1], curLine)
    ELSE LET o == ParseOperator(line, st.pos)
         IN  CASE o.kind = "error" -> [st EXCEPT !.err = o.msg]
               [] o.kind = "op" ->
                    ParseLoop(line, ParseOperatorCase(st, o), curLine)
               [] OTHER ->
                    ParseLoop(line, ParseOperandCase(line, st, curLine), curLine)

\* result: .err = "" and .result the postfix tokens, or .err the ParseError
\* message; .m the module state after the compile hooks that ran
ParseExpression(line, m, curLine) ==
    ParseLoop(line, [pos |-> 1, result |-> <<>>, operatorsOrFuncs |-> <<>>,
                     m |-> m, err |-> ""], curLine)

-----------------------------------------------------------------------------
(* Values on the evaluator's stack.  A variable token points at a Variable *)
(* object; an assignment always allocates a new object, so the data behind *)
(* a token is the data the object was created with, and the token is stale *)
(* once the store no longer holds the object with its id.                  *)

Numeric(x) == NumericConstantToken(x)

NumericVariableToken(name, var) ==
    [t |-> "numvar", name |-> name, value |-> var.data, id |-> var.id]
StringVariableToken(name, var) ==
    [t |-> "strvar", name |-> name, value |-> var.data, id |-> var.id]

IsNumericToken(tok) == tok.t \in {"num", "numvar"}
IsStringToken(tok) == tok.t \in {"str", "strvar"}
IsVariableToken(tok) == tok.t \in {"numvar", "strvar"}
NullToken == [t |-> "null"]

\* the object a variable token points at has been freed by a later assignment
Stale(tok, variables) ==
    /\ IsVariableToken(tok)
    /\ \/ tok.name \notin DOMAIN variables
       \/ variables[tok.name].id # tok.id

\* std::to_string(double) on an integral value: "%f"
NumToString(x) == ToString(x) \o ".000000"

\* NumericToken::ToString / StringToken::ToString
TokenToString(tok) ==
    IF IsNumericToken(tok) THEN NumToString(tok.value) ELSE tok.value

\* ParseVariableToken: the token for a live variable of that name, or null
ParseVariableToken(opStr, variables) ==
    IF opStr \in DOMAIN variables
    THEN IF variables[opStr].kind = "num"
         THEN NumericVariableToken(opStr, variables[opStr])
         ELSE StringVariableToken(opStr, variables[opStr])
    ELSE NullToken

-----------------------------------------------------------------------------
(* The numeric operations, on integers.  [ok, value] or [ok = FALSE, msg]. *)

OutOfModel == "OutOfModel"
Val(x) == [ok |-> TRUE, value |-> x]
Throw(msg) == [ok |-> FALSE, msg |-> msg]
Bool(b) == IF b THEN 1 ELSE 0
Abs(x) == IF x < 0 THEN 0 - x ELSE x

RECURSIVE PowInt(_, _)
PowInt(a, b) == IF b = 0 THEN 1 ELSE a * PowInt(a, b - 1)

RECURSIVE BitOp(_, _, _)
BitOp(isAnd, a, b) ==
    IF a = 0 /\ b = 0 THEN 0
    ELSE LET bit == IF isAnd THEN Bool(a % 2 = 1 /\ b % 2 = 1)
                             ELSE Bool(a % 2 = 1 \/ b % 2 = 1)
         IN  bit + 2 * BitOp(isAnd, a \div 2, b \div 2)

\* DoubleEquals: |a - b| < 0.0001, which on integers is equality
DoubleEquals(a, b) ==
    LET diff == a - b IN diff < 1 /\ (0 - diff) < 1

\* std::sqrt on a perfect square
Sqrt(x) ==
    IF x >= 0 /\ \E r \in 0..x : r * r = x
    THEN Val(CHOOSE r \in 0..x : r * r = x)
    ELSE Throw(OutOfModel)

EvalNumeric(operation, a, b) ==
    CASE operation = "LogicalOr" -> Val(Bool(a # 0 \/ b # 0))
      [] operation = "LogicalAnd" -> Val(Bool(a # 0 /\ b # 0))
      [] operation = "Equals" -> Val(Bool(DoubleEquals(a, b)))
      [] operation = "NotEquals" -> Val(Bool(~DoubleEquals(a, b)))
      [] operation = "GT" -> Val(Bool(a > b))
      [] operation = "GTE" -> Val(Bool(a >= b))
      [] operation = "LT" -> Val(Bool(a < b))
      [] operation = "LTE" -> Val(Bool(a <= b))
      [] operation = "BitwiseAnd" ->
            IF a >= 0 /\ b >= 0 THEN Val(BitOp(TRUE, a, b)) ELSE Throw(OutOfModel)
      [] operation = "BitwiseOr" ->
            IF a >= 0 /\ b >= 0 THEN Val(BitOp(FALSE, a, b)) ELSE Throw(OutOfModel)
      [] operation = "LeftShift" ->
            IF a >= 0 /\ b \in 0..30 THEN Val(a * PowInt(2, b)) ELSE Throw(OutOfModel)
      [] operation = "RightShift" ->
            IF a >= 0 /\ b \in 0..30 THEN Val(a \div PowInt(2, b)) ELSE Throw(OutOfModel)
      [] operation = "Multiply" -> Val(a * b)
      [] operation = "Add" -> Val(a + b)
      [] operation = "Subtract" -> Val(a - b)
      [] operation = "Divide" ->
            IF b = 0 THEN Throw("Division by zero")
            ELSE IF Abs(a) % Abs(b) = 0
                 THEN Val((IF (a < 0) = (b < 0) THEN 1 ELSE -1) * (Abs(a) \div Abs(b)))
                 ELSE Throw(OutOfModel)
      [] operation = "Modulo" ->
            IF b = 0 THEN Throw("Modulo by zero")
            ELSE Val((IF a < 0 THEN -1 ELSE 1) * (Abs(a) % Abs(b)))
      [] operation = "Pow" ->
            IF b >= 0 THEN Val(PowInt(a, b)) ELSE Throw(OutOfModel)

\* Operation::Eval results: "null" (operand kinds do not match), "throw", or
\* "token" with the result and the variable store after the operation
OpNull == [r |-> "null"]

\* AssignVariableOperation::Eval that keeps the binding a name already has
AssignVariableOperationEvalKeep(a, b, variables, id) ==
    LET varName == IF a.t = "str" THEN a.value
                   ELSE IF IsVariableToken(a) THEN a.name ELSE ""
        keep(v) == IF varName \in DOMAIN variables THEN variables
                   ELSE MapPut(variables, varName, v)
    IN  IF varName # "" /\ IsNumericToken(b)
        THEN LET v == [kind |-> "num", data |-> b.value, id |-> id]
             IN  [r |-> "token", token |-> NumericVariableToken(varName, v),
                  variables |-> keep(v), allocated |-> TRUE]
        ELSE IF varName # "" /\ IsStringToken(b)
        THEN LET v == [kind |-> "str", data |-> b.value, id |-> id]
             IN  [r |-> "token", token |-> StringVariableToken(varName, v),
                  variables |-> keep(v), allocated |-> TRUE]
        ELSE OpNull

\* AssignVariableOperation::Eval
AssignVariableOperationEval(a, b, variables, id) ==
    LET varName == IF a.t = "str" THEN a.value
                   ELSE IF IsVariableToken(a) THEN a.name ELSE ""
    IN  IF varName # "" /\ IsNumericToken(b)
        THEN LET v == [kind |-> "num", data |-> b.value, id |-> id]
             IN  [r |-> "token", token |-> NumericVariableToken(varName, v),
                  variables |-> MapPut(variables, varName, v), allocated |-> TRUE]
        ELSE IF varName # "" /\ IsStringToken(b)
        THEN LET v == [kind |-> "str", data |-> b.value, id |-> id]
             IN  [r |-> "token", token |-> StringVariableToken(varName, v),
                  variables |-> MapPut(variables, varName, v), allocated |-> TRUE]
        ELSE OpNull

\* DualNumericsOperation::Eval, DualStringOperation::Eval and the assignment
DualOperationEval(operation, a, b, variables, id) ==
    CASE operation = "Assign" -> AssignVariableOperationEval(a, b, variables, id)
      [] operation = "StringAdd" ->
            IF IsStringToken(a) /\ IsStringToken(b)
            THEN [r |-> "token", token |-> StringConstantToken(a.value \o b.value),
                  variables |-> variables, allocated |-> FALSE]
            ELSE OpNull
      [] OTHER ->
            IF IsNumericToken(a) /\ IsNumericToken(b)
            THEN LET n == EvalNumeric(operation, a.value, b.value)
                 IN  IF n.ok
                     THEN [r |-> "token", token |-> Numeric(n.value),
                           variables |-> variables, allocated |-> FALSE]
                     ELSE [r |-> "throw", msg |-> n.msg]
            ELSE OpNull

\* DualOperandOperator::Eval: the first operation with a non-null result
RECURSIVE DualOperandOperatorEval(_, _, _, _, _)
DualOperandOperatorEval(operations, a, b, variables, id) ==
    IF operations = <<>> THEN OpNull
    ELSE LET res == DualOperationEval(Head(operations), a, b, variables, id)
         IN  IF res.r = "null"
             THEN DualOperandOperatorEval(Tail(operations), a, b, variables, id)
             ELSE res

\* SingleOperandOperator::Eval over SingleNumericOperation
SingleOperandOperatorEval(operations, a) ==
    IF operations = <<>> \/ ~IsNumericToken(a) THEN OpNull
    ELSE IF Head(operations) = "Negate"
         THEN [r |-> "token", token |-> Numeric(0 - a.value)]
         ELSE [r |-> "token", token |-> Numeric(Bool(a.value = 0))]

-----------------------------------------------------------------------------
(* Run-time hooks: Function::Execute.  ev is the evaluator's state: its    *)
(* value stack plus the module fields a line can change.  ev.iter is       *)
(* *curRunLineIter - scriptRunLines.begin().                               *)
(*                                                                         *)
(* u resolves the undefined behaviour a line can run into:                 *)
(*   u.dangling  the read of top.line through onEnd's dangling reference:  *)
(*               "residual" (the slot still holds what was last built in   *)
(*               it), "nojump" (a value GoToLine ignores) or "crash";      *)
(*   u.garbage   the double left in the return register by                 *)
(*               ElseFunction::Execute, which has no return statement;     *)
(*   u.emptyTop  std::stack::top() on an empty stack: a null shared_ptr    *)
(*               ("null") or a fault ("crash");                            *)
(*   u.freed     use of a variable token whose Variable was freed:         *)
(*               "intact" (the freed object still reads as before) or      *)
(*               "crash".                                                  *)

\* ScriptModule::GoToLine taking its argument for a 1-based line number
GoToLineOneBased(ev, line) ==
    IF line > 0
    THEN [ev EXCEPT !.iter = line - 2,
                    !.jumps = Append(@, [from |-> ev.cur, to |-> line - 1])]
    ELSE ev

\* ScriptModule::GoToLine; Execute's ++iter follows, so the line evaluated
\* next is line.  ev.jumps records the reassignments of the program counter a
\* line makes: the line that jumps and the line evaluated next
GoToLine(ev, line) ==
    IF line > 0
    THEN [ev EXCEPT !.iter = line - 1,
                    !.jumps = Append(@, [from |-> ev.cur, to |-> line])]
    ELSE ev

\* beginToEndMap[k] with operator[]'s insertion of a missing key
TouchBeginToEnd(ev, k) ==
    IF k \in DOMAIN ev.beginToEndMap THEN ev
    ELSE [ev EXCEPT !.beginToEndMap = MapPut(@, k, 0), !.missed = TRUE]

TouchEndToBegin(ev, k) ==
    IF k \in DOMAIN ev.endToBeginMap THEN ev
    ELSE [ev EXCEPT !.endToBeginMap = MapPut(@, k, EndToBegin(0, 0)),
                    !.missed = TRUE]

Return(ev, x) == [ev |-> ev, value |-> x]

\* ConditionalFunction::Execute that records a result only for a true condition
ConditionalFunctionExecuteTrueOnly(ev, param) ==
    LET val == param.value # 0
        e1 == IF ~val
              THEN LET t == TouchBeginToEnd(ev, ev.iter)
                   IN  GoToLine(t, t.beginToEndMap[ev.iter])
              ELSE [ev EXCEPT !.ifResultStack = Append(@, val)]
    IN  Return([e1 EXCEPT !.lastTest = MapPut(@, ev.cur, val)], 0)

\* ConditionalFunction::Execute (if, while); ValidateParams made param numeric
ConditionalFunctionExecute(ev, param) ==
    LET val == param.value # 0
        e1 == IF ~val
              THEN LET t == TouchBeginToEnd(ev, ev.iter)
                   IN  GoToLine(t, t.beginToEndMap[ev.iter])
              ELSE ev
    IN  Return([e1 EXCEPT !.ifResultStack = Append(@, val),
                          !.lastTest = MapPut(@, ev.cur, val)], 0)

\* ElseFunction::Execute
ElseFunctionExecute(ev, u) ==
    IF ev.ifResultStack = <<>>
    THEN Return([ev EXCEPT !.err =
                   "Error evaluating else statement (no if result detected)"], 0)
    ELSE LET ifResult == Top(ev.ifResultStack)
             e1 == [ev EXCEPT !.ifResultStack = Pop(@)]
             e2 == IF ifResult
                   THEN LET t == TouchBeginToEnd(e1, e1.iter)
                        IN  GoToLine(t, t.beginToEndMap[e1.iter])
                   ELSE e1
         IN  Return(e2, u.garbage)

\* ElseIfFunction::Execute
ElseIfFunctionExecute(ev, param) ==
    IF ev.ifResultStack = <<>>
    THEN Return([ev EXCEPT !.err =
                   "Error evaluating elseif statement (no if result detected)"], 0)
    ELSE LET ifResult == Top(ev.ifResultStack)
             e1 == [ev EXCEPT !.ifResultStack = Pop(@)]
         IN  IF ~IsNumericToken(param)
             THEN Return([e1 EXCEPT !.crashed = TRUE], 0)
             ELSE LET result == param.value # 0
                      e2 == IF ifResult \/ ~result
                            THEN LET t == TouchBeginToEnd(e1, e1.iter)
                                 IN  GoToLine(t, t.beginToEndMap[e1.iter])
                            ELSE e1
                  IN  Return([e2 EXCEPT !.ifResultStack =
                                Append(@, IF ifResult THEN TRUE ELSE result)], 0)

\* the closure WhileFunction::ValidateCompilation stores in top.onEnd
WhileOnEnd(ev, slot, u) ==
    IF ev.ifResultStack # <<>> /\ Top(ev.ifResultStack)
    THEN CASE u.dangling = "residual" -> GoToLine(ev, ev.slotMem[slot])
           [] u.dangling = "nojump" -> ev
           [] OTHER -> [ev EXCEPT !.crashed = TRUE]
    ELSE ev

\* EndFunction::Execute
EndFunctionExecute(ev, u) ==
    LET curLine == ev.iter
        t == TouchEndToBegin(ev, curLine)
        e == t.endToBeginMap[curLine]
    IN  Return(IF e.execute # 0 THEN WhileOnEnd(t, e.execute, u) ELSE t, 0)

\* PrintFunction::Execute
PrintFunctionExecute(ev, param) ==
    Return([ev EXCEPT !.out = Append(@, TokenToString(param))], 1)

\* SqrtFunction::Execute
SqrtFunctionExecute(ev, param) ==
    LET r == Sqrt(param.value)
    IN  IF r.ok THEN Return(ev, r.value)
        ELSE Return([ev EXCEPT !.err = r.msg], 0)

\* Function::ValidateParams, by function
ValidateParams(name, params) ==
    IF name \in {"sqrt", "if", "while"} THEN IsNumericToken(params[1]) ELSE TRUE

\* virtual dispatch of Function::Execute
FunctionExecute(name, params, ev, u) ==
    CASE name = "sqrt" -> SqrtFunctionExecute(ev, params[1])
      [] name = "print" -> PrintFunctionExecute(ev, params[1])
      [] name \in {"if", "while"} -> ConditionalFunctionExecute(ev, params[1])
      [] name = "else" -> ElseFunctionExecute(ev, u)
      [] name = "elseif" -> ElseIfFunctionExecute(ev, params[1])
      [] name = "end" -> EndFunctionExecute(ev, u)

-----------------------------------------------------------------------------
(* EvaluateExpression: one postfix line over a value stack (top last)      *)

\* the operand branch: a string constant naming a live variable is replaced
\* by a token for that variable
EvalOperand(ev, token) ==
    LET varToken == IF token.t = "str"
                    THEN ParseVariableToken(token.value, ev.variables)
                    ELSE NullToken
    IN  [ev EXCEPT !.stack = Append(@, IF varToken # NullToken
                                       THEN varToken ELSE token)]

\* a popped operand that points at a freed Variable
UsesFreed(ev, operands) ==
    \E i \in 1..Len(operands) : Stale(operands[i], ev.variables)

InvalidOperands(ev, op) ==
    [ev EXCEPT !.err = "Invalid operands for operator " \o op.operator_]

\* top() and pop() on an empty value stack: st.top() yields no usable token
PopFromEmpty(ev, op, u) ==
    IF u.emptyTop = "crash"
    THEN [ev EXCEPT !.poppedEmpty = TRUE, !.crashed = TRUE]
    ELSE [InvalidOperands(ev, op) EXCEPT !.poppedEmpty = TRUE]

EvalDual(ev, op, u) ==
    IF Len(ev.stack) < 2 THEN PopFromEmpty(ev, op, u)
    ELSE LET rhsToken == ev.stack[Len(ev.stack)]
             lhsToken == ev.stack[Len(ev.stack) - 1]
             e1 == [ev EXCEPT !.stack = Pop(Pop(@))]
             res == DualOperandOperatorEval(op.operations, lhsToken, rhsToken,
                                            e1.variables, e1.nextVarId)
         IN  IF UsesFreed(ev, <<lhsToken, rhsToken>>) /\ u.freed = "crash"
             THEN [e1 EXCEPT !.crashed = TRUE]
             ELSE CASE res.r = "null" -> InvalidOperands(e1, op)
                    [] res.r = "throw" -> [e1 EXCEPT !.err = res.msg]
                    [] OTHER ->
                        [e1 EXCEPT !.stack = Append(@, res.token),
                                   !.variables = res.variables,
                                   !.nextVarId = IF res.allocated THEN @ + 1 ELSE @]

EvalSingle(ev, op, u) ==
    IF Len(ev.stack) < 1 THEN PopFromEmpty(ev, op, u)
    ELSE LET token == Top(ev.stack)
             e1 == [ev EXCEPT !.stack = Pop(@)]
             res == SingleOperandOperatorEval(op.operations, token)
         IN  IF UsesFreed(ev, <<token>>) /\ u.freed = "crash"
             THEN [e1 EXCEPT !.crashed = TRUE]
             ELSE IF res.r = "null" THEN InvalidOperands(e1, op)
                  ELSE [e1 EXCEPT !.stack = Append(@, res.token)]

\* the OperatorToken branch
EvalOperator(ev, op, u) ==
    IF Len(ev.stack) < op.numOperands
    THEN [ev EXCEPT !.err = "Invalid number of operands for operator "
                             \o ToString(op.numOperands)]
    ELSE CASE op.cls = "dual" -> EvalDual(ev, op, u)
           [] op.cls = "single" -> EvalSingle(ev, op, u)
           [] OTHER -> InvalidOperands(ev, op)

\* the FunctionCallToken branch
EvalFunction(ev, f, u) ==
    IF Len(ev.stack) < f.numParams
    THEN [ev EXCEPT !.err = "Invalid number of arguments for function " \o f.name]
    ELSE LET params == [i \in 1..f.numParams |-> ev.stack[Len(ev.stack) + 1 - i]]
             e1 == [ev EXCEPT !.stack = SubSeq(@, 1, Len(@) - f.numParams)]
         IN  IF UsesFreed(ev, params) /\ u.freed = "crash"
             THEN [e1 EXCEPT !.crashed = TRUE]
             ELSE IF ~ValidateParams(f.name, params)
             THEN [e1 EXCEPT !.err = "Wrong parameter types for function " \o f.name]
             ELSE LET r == FunctionExecute(f.name, params, e1, u)
                  IN  IF r.ev.err # "" \/ r.ev.crashed THEN r.ev
                      ELSE [r.ev EXCEPT !.stack = Append(@, Numeric(r.value))]

\* the check after the token loop: stack.size() != 1 throws; ev.finalSize
\* records, as a one-element sequence, the size of the stack the check saw
CheckResultLenient(ev) ==
    IF Len(ev.stack) > 1
    THEN [ev EXCEPT !.err = "Not a valid expression", !.finalSize = <<Len(ev.stack)>>]
    ELSE [ev EXCEPT !.finalSize = <<Len(ev.stack)>>]

CheckResult(ev) ==
    IF Len(ev.stack) # 1
    THEN [ev EXCEPT !.err = "Not a valid expression", !.finalSize = <<Len(ev.stack)>>]
    ELSE [ev EXCEPT !.finalSize = <<Len(ev.stack)>>]

RECURSIVE EvalLoop(_, _, _, _)
EvalLoop(tokens, i, ev, u) ==
    IF ev.err # "" \/ ev.crashed THEN ev
    ELSE IF i > Len(tokens) THEN CheckResult(ev)
    ELSE LET token == tokens[i]
         IN  CASE token.t \in {"num", "str"} ->
                    EvalLoop(tokens, i + 1, EvalOperand(ev, token), u)
               [] token.t = "op" ->
                    EvalLoop(tokens, i + 1, EvalOperator(ev, token.value, u), u)
               [] token.t = "fn" ->
                    EvalLoop(tokens, i + 1, EvalFunction(ev, token.value, u), u)

EvaluateExpression(tokens, ev, u) == EvalLoop(tokens, 1, ev, u)

-----------------------------------------------------------------------------
(* Source programs explored.  A file is the sequence of lines std::getline *)
(* would return.                                                           *)

SP == <<" ">>
W_if == <<"i", "f">>
W_elseif == <<"e", "l", "s", "e", "i", "f">>
W_else == <<"e", "l", "s", "e">>
W_end == <<"e", "n", "d">>
W_while == <<"w", "h", "i", "l", "e">>
W_print == <<"p", "r", "i", "n", "t">>
W_sqrt == <<"s", "q", "r", "t">>

L_if0 == W_if \o SP \o <<"0">>
L_if1 == W_if \o SP \o <<"1">>
L_elseif0 == W_elseif \o SP \o <<"0">>
L_elseif1 == W_elseif \o SP \o <<"1">>
L_while0 == W_while \o SP \o <<"0">>
L_while1 == W_while \o SP \o <<"1">>
L_print7 == W_print \o SP \o <<"7">>

\* the lines generated block programs are made of
BlockLines == {L_if0, L_if1, L_elseif1, W_else, W_end, L_while0, L_while1, L_print7}

GeneratedPrograms == UNION {[1..n -> BlockLines] : n \in 1..MaxLines}

\* spec section 8, scenario 3
ProgWhileCount ==
    << <<"i", " ", "=", " ", "0">>,
       W_while \o <<" ", "i", " ", "<", " ", "3">>,
       W_print \o <<" ", "i">>,
       <<"i", " ", "=", " ", "i", " ", "+", " ", "1">>,
       W_end >>

\* a loop whose condition is a bare variable, counting down to 0
ProgWhileDown ==
    << <<"x", " ", "=", " ", "2">>,
       W_while \o <<" ", "x">>,
       W_print \o <<" ", "x">>,
       <<"x", " ", "=", " ", "x", " ", "-", " ", "1">>,
       W_end,
       L_print7 >>

\* spec section 8, scenario 1
ProgPrintSqrt ==
    << W_print \o <<" ", "5", " ", "+", " ">> \o W_sqrt \o <<" ", "9">> >>

\* spec section 8, scenario 2
ProgIfElse ==
    << <<"x", " ", "=", " ", "3">>,
       W_if \o <<" ", "x", " ", ">", " ", "2">>,
       W_print \o <<" ", Quote, "y", "e", "s", Quote>>,
       W_else,
       W_print \o <<" ", Quote, "n", "o", Quote>>,
       W_end >>

\* spec section 8, scenario 6
ProgElseIf ==
    << L_if0, W_print \o <<" ", Quote, "a", Quote>>,
       L_elseif1, W_print \o <<" ", Quote, "b", Quote>>,
       W_else, W_print \o <<" ", Quote, "c", Quote>>,
       W_end >>

\* an if ... end without else inside the true branch of an if ... else ... end
ProgNestedIf ==
    << L_if1, L_if0, W_end, W_else, L_print7, W_end >>

\* an if ... end without else inside a loop body
ProgIfInLoop ==
    << <<"x", " ", "=", " ", "2">>,
       W_while \o <<" ", "x">>,
       L_if1,
       <<"x", " ", "=", " ", "x", " ", "-", " ", "1">>,
       W_end,
       W_end >>

ProgNotNot == << <<"!", " ", "!", " ", "a">> >>
ProgMulNeg == << <<"a", " ", "*", " ", "-", " ", "b">> >>
ProgNeg == << <<"x", " ", "=", " ", "-", " ", "3">> >>
ProgOpenBracket == << L_print7, <<"(", "1", "+", "2">> >>
ProgCloseBracket == << L_print7, <<"1", "+", "2", ")">> >>
ProgBrackets == << W_print \o <<" ", "(", "1", "+", "2", ")", " ", "*", " ", "3">> >>
ProgLonePlus == << L_print7, <<"1", " ", "+">> >>
ProgLoneNot == << <<"!">> >>
ProgDivZero == << W_print \o <<" ", "6", " ", "/", " ", "0">> >>
ProgConcat ==
    << W_print \o <<" ", Quote, "f", "o", "o", Quote, " ", "+", " ",
                    Quote, "b", "a", "r", Quote>> >>
ProgElseUnderWhile == << L_while0, W_else, W_end >>
ProgSecondElse == << L_if1, W_else, W_else, W_end >>
\* two block statements on one line
ProgTwoIfs == << L_if1 \o SP \o L_if1, W_end, W_end >>

\* assignment and print lines over the names x and y
L_x1 == <<"x", " ", "=", " ", "1">>
L_xs == <<"x", " ", "=", " ", Quote, "s", Quote>>
L_xqy == <<"x", " ", "=", " ", Quote, "y", Quote>>
L_y2 == <<"y", " ", "=", " ", "2">>
L_yx == <<"y", " ", "=", " ", "x">>
L_printx == W_print \o <<" ", "x">>
L_printy == W_print \o <<" ", "y">>

AssignLines == {L_x1, L_xs, L_xqy, L_y2, L_yx, L_printx, L_printy}

AssignPrograms == UNION {[1..n -> AssignLines] : n \in 1..MaxAssignLines}

\* a false if ... end without else inside a loop body
ProgFalseIfInLoop ==
    << <<"x", " ", "=", " ", "2">>,
       W_while \o <<" ", "x">>,
       <<"x", " ", "=", " ", "x", " ", "-", " ", "1">>,
       L_if0,
       W_end,
       W_end,
       W_print \o <<" ", "x">> >>

\* a line of white space only, which is not empty for Compile's line.empty()
ProgSpaceLine == << L_print7, SP, L_print7 >>
\* a line that leaves two values
ProgTwoValues == << L_print7, <<"1", " ", "2">>, L_print7 >>

\* blank lines between the statements of an if chain
ProgBlankLines ==
    << <<>>, L_if0, <<>>, L_print7, <<>>, <<>>, W_else, L_print7, <<>>, W_end >>
\* a loop followed by another block at the same nesting depth
ProgLoopThenIf ==
    << <<"x", " ", "=", " ", "2">>,
       W_while \o <<" ", "x">>,
       <<"x", " ", "=", " ", "x", " ", "-", " ", "1">>,
       W_end,
       L_if1,
       W_print \o <<" ", "x">>,
       W_end >>

\* loops followed by an if chain at the same nesting depth
ProgLoopThenElse == << L_print7, L_while1, W_end, L_if1, W_else, W_end >>
ProgLoopThenElseIf ==
    << L_print7, L_while1, W_end, L_if0, L_elseif1, W_else, W_end >>
\* an if chain nested in both branches of an if chain
ProgNestedChains ==
    << L_if1, L_if0, L_print7, W_else, L_print7, W_end,
       W_else, L_if1, W_else, W_end, W_end >>

\* an assignment whose left operand is a quoted string literal
ProgQuotedName ==
    << <<Quote, "a", "+", "b", Quote, " ", "=", " ", "1">>,
       W_print \o <<" ", Quote, "a", "+", "b", Quote>> >>

NamedPrograms ==
    {ProgWhileCount, ProgWhileDown, ProgPrintSqrt, ProgIfElse, ProgElseIf,
     ProgNestedIf, ProgIfInLoop, ProgNotNot, ProgMulNeg, ProgNeg,
     ProgOpenBracket, ProgCloseBracket, ProgBrackets, ProgLonePlus,
     ProgLoneNot, ProgDivZero, ProgConcat, ProgElseUnderWhile, ProgSecondElse,
     ProgTwoIfs, ProgQuotedName, ProgFalseIfInLoop, ProgSpaceLine,
     ProgTwoValues, ProgBlankLines, ProgLoopThenIf, ProgLoopThenElse,
     ProgLoopThenElseIf, ProgNestedChains}

\* the characters of the 19 binary operators, in registry order
BinaryOperatorChars ==
    << <<"=">>, <<"|", "|">>, <<"&", "&">>, <<"=", "=">>, <<"!", "=">>,
       <<">">>, <<"<">>, <<">", "=">>, <<"<", "=">>, <<"|">>, <<"&">>,
       <<"<", "<">>, <<">", ">">>, <<"+">>, <<"-">>, <<"*">>, <<"/">>,
       <<"%">>, <<"^">> >>

\* the line  a A b B c  for the i-th and j-th binary operator
PairLine(i, j) ==
    <<"a", " ">> \o BinaryOperatorChars[i] \o <<" ", "b", " ">>
                 \o BinaryOperatorChars[j] \o <<" ", "c">>

PairPrograms ==
    {<<PairLine(i, j)>> : i, j \in 1..Len(BinaryOperatorChars)}

Programs ==
    GeneratedPrograms \cup NamedPrograms \cup PairPrograms \cup AssignPrograms

-----------------------------------------------------------------------------
(* The batch driver *)

\* ParseFile's reading loop: an empty line is dropped when the next read
\* starts, and the element emplaced for the failed last read stays
ReadLines(file) == SelectSeq(file, LAMBDA l : l # <<>>) \o << <<>> >>

Init ==
    /\ fileLines \in Programs
    /\ scriptCompileLines = ReadLines(fileLines)
    /\ scriptRunLines = <<>>
    /\ phase = "compile"
    /\ curCompileLineIter = 0
    /\ curRunLineIter = 0
    /\ nestStack = <<>>
    /\ slotMem = EmptyMap
    /\ beginToEndMap = EmptyMap
    /\ endToBeginMap = EmptyMap
    /\ ifResultStack = <<>>
    /\ scriptVariables = EmptyMap
    /\ nextVarId = 1
    /\ out = <<>>
    /\ errMsg = ""
    /\ trace = <<>>
    /\ depthBefore = EmptyMap
    /\ poppedEmpty = FALSE
    /\ lastTest = EmptyMap
    /\ lastJumps = <<>>
    /\ lookupMissed = FALSE
    /\ lastFinalSize = <<>>

runVars == <<curRunLineIter, ifResultStack, scriptVariables, nextVarId, out,
             trace, depthBefore, poppedEmpty, lastTest, lastJumps,
             lookupMissed, lastFinalSize>>

\* one iteration of the loop of ScriptModule::Compile
CompileLine ==
    /\ phase = "compile"
    /\ curCompileLineIter < Len(scriptCompileLines)
    /\ LET line == scriptCompileLines[curCompileLineIter + 1]
           m == [nestStack |-> nestStack, slotMem |-> slotMem,
                 beginToEndMap |-> beginToEndMap, endToBeginMap |-> endToBeginMap]
           st == ParseExpression(line, m, curCompileLineIter)
       IN  IF line = <<>>
           THEN /\ curCompileLineIter' = curCompileLineIter + 1
                /\ UNCHANGED <<scriptRunLines, phase, nestStack, slotMem,
                               beginToEndMap, endToBeginMap, errMsg>>
           ELSE /\ nestStack' = st.m.nestStack
                /\ slotMem' = st.m.slotMem
                /\ beginToEndMap' = st.m.beginToEndMap
                /\ endToBeginMap' = st.m.endToBeginMap
                /\ IF st.err # ""
                   THEN /\ phase' = "compile_failed"
                        /\ errMsg' = st.err
                        /\ UNCHANGED <<scriptRunLines, curCompileLineIter>>
                   ELSE /\ scriptRunLines' = Append(scriptRunLines, st.result)
                        /\ curCompileLineIter' = curCompileLineIter + 1
                        /\ UNCHANGED <<phase, errMsg>>
    /\ UNCHANGED <<fileLines, scriptCompileLines>>
    /\ UNCHANGED runVars

\* the end of ScriptModule::Compile, and ParseFile's call of Execute when it
\* returned true
CompileEnd ==
    /\ phase = "compile"
    /\ curCompileLineIter = Len(scriptCompileLines)
    /\ IF nestStack # <<>>
       THEN /\ phase' = "compile_failed"
            /\ errMsg' = "Begin-type block '" \o Top(nestStack).name
                           \o "' is missing an 'end' specifier"
       ELSE /\ phase' = "execute"
            /\ errMsg' = errMsg
    /\ UNCHANGED <<fileLines, scriptCompileLines, scriptRunLines,
                   curCompileLineIter, nestStack, slotMem, beginToEndMap,
                   endToBeginMap>>
    /\ UNCHANGED runVars

HasFunction(tokens, name) ==
    \E i \in 1..Len(tokens) : tokens[i].t = "fn" /\ tokens[i].value.name = name
HasOperator(tokens) == \E i \in 1..Len(tokens) : tokens[i].t = "op"

\* the outcomes of undefined behaviour a line can meet
UChoices(tokens) ==
    [dangling : IF HasFunction(tokens, "end")
                THEN {"residual", "nojump", "crash"} ELSE {"residual"},
     garbage : IF HasFunction(tokens, "else") THEN {0, 1} ELSE {0},
     emptyTop : IF HasOperator(tokens) THEN {"null", "crash"} ELSE {"null"},
     freed : IF HasOperator(tokens) THEN {"intact", "crash"} ELSE {"intact"}]

\* one iteration of the loop of ScriptModule::Execute
ExecuteLine ==
    /\ phase = "execute"
    /\ curRunLineIter < Len(scriptRunLines)
    /\ Len(trace) < MaxSteps
    /\ LET tokens == scriptRunLines[curRunLineIter + 1]
           ev0 == [stack |-> <<>>, variables |-> scriptVariables,
                   nextVarId |-> nextVarId, ifResultStack |-> ifResultStack,
                   out |-> out, iter |-> curRunLineIter, slotMem |-> slotMem,
                   beginToEndMap |-> beginToEndMap,
                   endToBeginMap |-> endToBeginMap,
                   err |-> "", crashed |-> FALSE, poppedEmpty |-> poppedEmpty,
                   cur |-> curRunLineIter, jumps |-> <<>>,
                   missed |-> lookupMissed, lastTest |-> lastTest,
                   finalSize |-> <<>>]
       IN  \E u \in UChoices(tokens) :
             LET ev == EvaluateExpression(tokens, ev0, u)
             IN  /\ scriptVariables' = ev.variables
                 /\ nextVarId' = ev.nextVarId
                 /\ ifResultStack' = ev.ifResultStack
                 /\ out' = ev.out
                 /\ beginToEndMap' = ev.beginToEndMap
                 /\ endToBeginMap' = ev.endToBeginMap
                 /\ poppedEmpty' = ev.poppedEmpty
                 /\ lastTest' = ev.lastTest
                 /\ lastJumps' = ev.jumps
                 /\ lookupMissed' = ev.missed
                 /\ lastFinalSize' = ev.finalSize
                 /\ IF ev.crashed
                    THEN /\ phase' = "crashed"
                         /\ UNCHANGED <<errMsg, curRunLineIter>>
                    ELSE IF ev.err # ""
                    THEN /\ phase' = "runtime_error"
                         /\ errMsg' = ev.err
                         /\ UNCHANGED curRunLineIter
                    ELSE /\ curRunLineIter' = ev.iter + 1
                         /\ UNCHANGED <<phase, errMsg>>
    /\ trace' = Append(trace, curRunLineIter)
    /\ depthBefore' = MapPut(depthBefore, curRunLineIter, Len(ifResultStack))
    /\ UNCHANGED <<fileLines, scriptCompileLines, scriptRunLines,
                   curCompileLineIter, nestStack, slotMem>>

\* the loop of ScriptModule::Execute ends: iter == scriptRunLines.end()
ExecuteEnd ==
    /\ phase = "execute"
    /\ curRunLineIter = Len(scriptRunLines)
    /\ phase' = "done"
    /\ UNCHANGED <<fileLines, scriptCompileLines, scriptRunLines,
                   curCompileLineIter, nestStack, slotMem, beginToEndMap,
                   endToBeginMap, errMsg>>
    /\ UNCHANGED runVars

Next == CompileLine \/ CompileEnd \/ ExecuteLine \/ ExecuteEnd

Spec == Init /\ [][Next]_vars

ModelDomainOK == errMsg # OutOfModel

-----------------------------------------------------------------------------
(* Vocabulary of the properties: the block structure of the compiled       *)
(* program as the language defines it, independent of the two jump maps.   *)
(* Line indices are 0-based run-line indices.                              *)

BlockNames == {"if", "elseif", "else", "while", "end"}
Range(seq) == {seq[i] : i \in 1..Len(seq)}

CompiledOK == phase \in {"execute", "done", "runtime_error", "crashed"}
NumLines == Len(scriptRunLines)

BlockTokens(tokens) ==
    {i \in 1..Len(tokens) :
        tokens[i].t = "fn" /\ tokens[i].value.name \in BlockNames}

OneBlockPerLine ==
    \A k \in 1..NumLines : Cardinality(BlockTokens(scriptRunLines[k])) <= 1

\* the block statement of run line k, "" when it has none
Kw(k) ==
    LET tokens == scriptRunLines[k + 1]
    IN  IF BlockTokens(tokens) = {} THEN ""
        ELSE tokens[CHOOSE i \in BlockTokens(tokens) : TRUE].value.name

\* nesting depth in front of run line k
NestDepth(k) ==
    Cardinality({j \in 0..(k - 1) : Kw(j) \in {"if", "while"}})
      - Cardinality({j \in 0..(k - 1) : Kw(j) = "end"})

\* the 'end' that closes the block opened on line k
MatchingEnd(k) ==
    CHOOSE e \in (k + 1)..(NumLines - 1) :
        /\ Kw(e) = "end" /\ NestDepth(e) = NestDepth(k) + 1
        /\ \A f \in (k + 1)..(e - 1) :
              ~(Kw(f) = "end" /\ NestDepth(f) = NestDepth(k) + 1)

IfLines == {k \in 0..(NumLines - 1) : Kw(k) = "if"}

\* the lines that open the branches of the chain of the 'if' on line k
Headers(k) ==
    {k} \cup {h \in (k + 1)..(MatchingEnd(k) - 1) :
                /\ Kw(h) \in {"elseif", "else"}
                /\ NestDepth(h) = NestDepth(k) + 1}

\* the line that closes the branch opened by header h of the chain of k
BranchClose(k, h) ==
    CHOOSE c \in (Headers(k) \cup {MatchingEnd(k)}) :
        /\ c > h
        /\ \A d \in (Headers(k) \cup {MatchingEnd(k)}) : d > h => c <= d

\* the part of the trace that starts at the last execution of line k
SinceLast(k) ==
    IF k \in Range(trace)
    THEN LET i == CHOOSE i \in 1..Len(trace) :
                    trace[i] = k /\ \A j \in (i + 1)..Len(trace) : trace[j] # k
         IN  SubSeq(trace, i, Len(trace))
    ELSE <<>>

\* branches of the chain of k of which a body line ran since k last ran
BranchesRun(k) ==
    {h \in Headers(k) :
        \E b \in (h + 1)..(BranchClose(k, h) - 1) : b \in Range(SinceLast(k))}

\* a header whose condition is a numeric literal, and its truth value
ConstHeader(h) ==
    \/ Kw(h) = "else"
    \/ /\ Len(scriptRunLines[h + 1]) = 2
       /\ scriptRunLines[h + 1][1].t = "num"
HeaderTrue(h) == Kw(h) = "else" \/ scriptRunLines[h + 1][1].value # 0

-----------------------------------------------------------------------------
(* C1 *)

\* C1: in a compiled program with one block statement per line, an
\* execution of an if / elseif* / [else] / end chain runs the body of at
\* most one branch, and (conditions being literals) only the body of the
\* first branch whose condition is true, or of else when none is; nested
\* blocks in a branch body do not change this.
InvC1 ==
    (CompiledOK /\ OneBlockPerLine) =>
        \A k \in IfLines :
            /\ Cardinality(BranchesRun(k)) <= 1
            /\ (\A h \in Headers(k) : ConstHeader(h)) =>
                  \A h \in BranchesRun(k) :
                      /\ HeaderTrue(h)
                      /\ \A g \in Headers(k) : g < h => ~HeaderTrue(g)

-----------------------------------------------------------------------------
(* C2 *)

\* C2: the program  i = 0 / while i < 3 / print i / i = i + 1 / end
\* compiles, raises no error, and ends having printed exactly 0.000000,
\* 1.000000, 2.000000.
InvC2 ==
    fileLines = ProgWhileCount =>
        /\ phase \notin {"compile_failed", "runtime_error", "crashed"}
        /\ phase = "done" => out = <<"0.000000", "1.000000", "2.000000">>

-----------------------------------------------------------------------------
(* C3 *)

\* C3: when the 'end' closing an if chain has just executed, the if-result
\* stack is as deep as it was just before the chain's 'if' executed.
InvC3 ==
    (phase \in {"execute", "done"} /\ OneBlockPerLine /\ trace # <<>>) =>
        \A k \in IfLines :
            (k \in DOMAIN depthBefore /\ Top(trace) = MatchingEnd(k)
               /\ MatchingEnd(k) \in Range(SinceLast(k)))
            => Len(ifResultStack) = depthBefore[k]

-----------------------------------------------------------------------------
(* C4 *)

EndLines == {k \in 0..(NumLines - 1) : Kw(k) = "end"}

\* C4 as stated: after a successful Compile the nest stack is empty and every
\* key L of beginToEndMap has endToBeginMap[beginToEndMap[L]].lineNumber = L,
\* the keys closed by elseif or else included.
InvC4 ==
    CompiledOK =>
        /\ nestStack = <<>>
        /\ \A L \in DOMAIN beginToEndMap :
              /\ beginToEndMap[L] \in DOMAIN endToBeginMap
              /\ endToBeginMap[beginToEndMap[L]].lineNumber = L

\* C4, amended: after a successful Compile of a program with at most one
\* block statement per line the nest stack is empty, endToBeginMap has an
\* entry exactly for the 'end' lines, each entry E names an opener L with
\* beginToEndMap[L] = E, and every key L of beginToEndMap whose target is an
\* 'end' line is the opener recorded for that line; a key closed by elseif
\* or else maps to that line, which has no entry in endToBeginMap.
ThmC4 ==
    (CompiledOK /\ OneBlockPerLine) =>
        /\ nestStack = <<>>
        /\ DOMAIN endToBeginMap = EndLines
        /\ \A E \in DOMAIN endToBeginMap :
              /\ endToBeginMap[E].lineNumber \in DOMAIN beginToEndMap
              /\ beginToEndMap[endToBeginMap[E].lineNumber] = E
        /\ \A L \in DOMAIN beginToEndMap :
              IF beginToEndMap[L] \in EndLines
              THEN endToBeginMap[beginToEndMap[L]].lineNumber = L
              ELSE /\ Kw(beginToEndMap[L]) \in {"elseif", "else"}
                   /\ beginToEndMap[L] \notin DOMAIN endToBeginMap

\* a compiled if / else / end chain: a key closed by 'else' and one by 'end'
WitC4 ==
    /\ CompiledOK /\ OneBlockPerLine
    /\ \E L \in DOMAIN beginToEndMap : Kw(beginToEndMap[L]) = "else"
    /\ \E L \in DOMAIN beginToEndMap : beginToEndMap[L] \in DOMAIN endToBeginMap

-----------------------------------------------------------------------------
(* C5 *)

\* C5: the program  print 5 + sqrt 9  raises no error and prints exactly
\* 8.000000.
InvC5 ==
    fileLines = ProgPrintSqrt =>
        /\ phase \notin {"compile_failed", "runtime_error", "crashed"}
        /\ phase = "done" => out = <<"8.000000">>

-----------------------------------------------------------------------------
(* C6 *)

Operand(name) == StringConstantToken(name)

\* C6: for binary operators A and B the line  a A b B c  compiles to the
\* postfix  a b A c B  when precedence(A) >= precedence(B) and to
\* a b c B A  when precedence(A) < precedence(B).
ThmC6 ==
    \A i, j \in 1..Len(BinaryOperatorChars) :
        (fileLines = <<PairLine(i, j)>> /\ phase # "compile") =>
            /\ phase # "compile_failed"
            /\ scriptRunLines[1] =
                 IF s_operators[i].precedence >= s_operators[j].precedence
                 THEN <<Operand("a"), Operand("b"), OperatorToken(i),
                        Operand("c"), OperatorToken(j)>>
                 ELSE <<Operand("a"), Operand("b"), Operand("c"),
                        OperatorToken(j), OperatorToken(i)>>

\* two distinct operators of equal precedence, compiled left-associatively
WitC6 ==
    \E i, j \in 1..Len(BinaryOperatorChars) :
        /\ i # j
        /\ s_operators[i].precedence = s_operators[j].precedence
        /\ fileLines = <<PairLine(i, j)>>
        /\ phase = "execute"
        /\ scriptRunLines[1] = <<Operand("a"), Operand("b"), OperatorToken(i),
                                 Operand("c"), OperatorToken(j)>>

-----------------------------------------------------------------------------
(* C7 *)

UnaryMinus == 20
LogicalNot == 21

\* C7: '! ! a' compiles to  a ! ! ,  'a * - b' to  a b - *  with the unary
\* minus of precedence 25, and the '-' of 'x = - 3' is that unary minus.
InvC7 ==
    phase # "compile" =>
        /\ fileLines = ProgNotNot =>
              /\ phase # "compile_failed"
              /\ scriptRunLines[1] = <<Operand("a"), OperatorToken(LogicalNot),
                                       OperatorToken(LogicalNot)>>
        /\ fileLines = ProgMulNeg =>
              /\ phase # "compile_failed"
              /\ scriptRunLines[1] = <<Operand("a"), Operand("b"),
                                       OperatorToken(UnaryMinus), OperatorToken(16)>>
        /\ fileLines = ProgNeg =>
              /\ phase # "compile_failed"
              /\ \A i \in 1..Len(scriptRunLines[1]) :
                    (scriptRunLines[1][i].t = "op"
                       /\ scriptRunLines[1][i].value.operator_ = "-")
                    => scriptRunLines[1][i].value.precedence = 25

-----------------------------------------------------------------------------
(* C8 *)

\* the parentheses of a line do not match
RECURSIVE BracketsOpenAfter(_, _, _)
BracketsOpenAfter(line, pos, open) ==
    IF pos > Len(line) THEN open
    ELSE IF line[pos] = "(" THEN BracketsOpenAfter(line, pos + 1, open + 1)
    ELSE IF line[pos] = ")"
         THEN IF open = 0 THEN -1 ELSE BracketsOpenAfter(line, pos + 1, open - 1)
    ELSE BracketsOpenAfter(line, pos + 1, open)

Unbalanced(line) == BracketsOpenAfter(line, 1, 0) # 0

\* C8: a program with a line of unbalanced parentheses does not get past
\* Compile: no line is executed and no '(' reaches a postfix list.
InvC8 ==
    (\E k \in 1..Len(fileLines) : Unbalanced(fileLines[k])) =>
        /\ phase \in {"compile", "compile_failed"}
        /\ trace = <<>>
        /\ \A k \in 1..NumLines : \A i \in 1..Len(scriptRunLines[k]) :
              ~IsOpenBracket(scriptRunLines[k][i])

-----------------------------------------------------------------------------
(* C9 *)

\* the block statements written on a source line, in order; text between
\* quotation marks is not a statement
RECURSIVE BlockWords(_, _)
BlockWords(line, pos) ==
    IF pos > Len(line) THEN <<>>
    ELSE IF line[pos] = Quote
         THEN IF FindQuote(line, pos + 1) = 0 THEN <<>>
              ELSE BlockWords(line, FindQuote(line, pos + 1) + 1)
    ELSE IF IsAlnum(line[pos]) \/ line[pos] = "_"
         THEN LET w == GetCurOperandString(line, pos)
              IN  IF Concat(w.chars) \in BlockNames
                  THEN <<Concat(w.chars)>> \o BlockWords(line, w.pos)
                  ELSE BlockWords(line, w.pos)
    ELSE BlockWords(line, pos + 1)

\* index of the first compile line on which the block statements stop being
\* properly matched; Len(lines) when an opener is left open after the last
\* line; -1 when the program is properly matched.  open is the sequence of
\* the names of the blocks still open.
RECURSIVE FirstMismatch(_, _, _, _)
FirstMismatch(lines, k, words, open) ==
    IF words = <<>>
    THEN IF k + 1 >= Len(lines)
         THEN IF open = <<>> THEN -1 ELSE Len(lines)
         ELSE FirstMismatch(lines, k + 1, BlockWords(lines[k + 2], 1), open)
    ELSE LET w == Head(words)
         IN  CASE w \in {"if", "while"} ->
                    FirstMismatch(lines, k, Tail(words), Append(open, w))
               [] w \in {"else", "elseif"} ->
                    IF open = <<>> \/ Top(open) \notin {"if", "elseif"}
                    THEN k
                    ELSE FirstMismatch(lines, k, Tail(words), Append(Pop(open), w))
               [] w = "end" ->
                    IF open = <<>> THEN k
                    ELSE FirstMismatch(lines, k, Tail(words), Pop(open))

MismatchLine ==
    FirstMismatch(scriptCompileLines, 0, BlockWords(scriptCompileLines[1], 1), <<>>)

\* C9: when the block statements of a program are not properly matched,
\* Compile fails no later than at the first such error and Execute does not
\* run; and whenever Compile fails no line is evaluated, nothing is printed
\* and the variable store stays empty.
ThmC9 ==
    /\ MismatchLine # -1 =>
          /\ phase \in {"compile", "compile_failed"}
          /\ curCompileLineIter <= MismatchLine
          /\ Len(scriptRunLines) <= MismatchLine
    /\ (MismatchLine # -1 \/ phase = "compile_failed") =>
          /\ trace = <<>>
          /\ out = <<>>
          /\ scriptVariables = EmptyMap
          /\ ifResultStack = <<>>

\* Compile has rejected an 'else' directly under 'while'
WitC9 ==
    /\ fileLines = ProgElseUnderWhile
    /\ MismatchLine = 1
    /\ phase = "compile_failed"
    /\ errMsg = "Missing 'if' for 'else' statement"

-----------------------------------------------------------------------------
(* C10 *)

\* C10: the evaluator never pops from an empty value stack: an operator
\* reached with fewer values than its arity stops the line with the error
\* 'Invalid number of operands for operator ...'.
InvC10 == ~poppedEmpty

-----------------------------------------------------------------------------
(* C11 *)

\* what the language says a line of AssignLines is: a target name, or "" for
\* print, and the operand it assigns or prints, a literal or a bare name
Lit(kind, data) == [lit |-> TRUE, kind |-> kind, data |-> data]
Name(n) == [lit |-> FALSE, name |-> n]
Statement(line) ==
    CASE line = L_x1 -> [target |-> "x", operand |-> Lit("num", 1)]
      [] line = L_xs -> [target |-> "x", operand |-> Name("s")]
      [] line = L_xqy -> [target |-> "x", operand |-> Name("y")]
      [] line = L_y2 -> [target |-> "y", operand |-> Lit("num", 2)]
      [] line = L_yx -> [target |-> "y", operand |-> Name("x")]
      [] line = L_printx -> [target |-> "", operand |-> Name("x")]
      [] line = L_printy -> [target |-> "", operand |-> Name("y")]

\* the value of an operand under the bindings st: a name (bare or quoted)
\* that is bound stands for its binding, any other name for itself
OperandValue(operand, st) ==
    IF operand.lit THEN [kind |-> operand.kind, data |-> operand.data]
    ELSE IF operand.name \in DOMAIN st THEN st[operand.name]
    ELSE [kind |-> "str", data |-> operand.name]

Shown(v) == IF v.kind = "num" THEN NumToString(v.data) ELSE v.data

\* bindings and output after the first k lines of the file, by the round trip
\* law: x = v binds x to v and leaves the rest, an operand x reads it back
RECURSIVE Expected(_)
Expected(k) ==
    IF k = 0 THEN [store |-> EmptyMap, out |-> <<>>]
    ELSE LET before == Expected(k - 1)
             stmt == Statement(fileLines[k])
             v == OperandValue(stmt.operand, before.store)
         IN  IF stmt.target = ""
             THEN [store |-> before.store, out |-> Append(before.out, Shown(v))]
             ELSE [store |-> MapPut(before.store, stmt.target, v),
                   out |-> before.out]

\* the store without the identities of the Variable objects
Bindings ==
    [n \in DOMAIN scriptVariables |->
        [kind |-> scriptVariables[n].kind, data |-> scriptVariables[n].data]]

\* C11: in a program of assignments x = v and prints, every line evaluates
\* successfully, and after each line the store binds exactly what the
\* assignments so far bound last, with the kind of the assigned value (a
\* binding of the other kind is replaced, the other bindings stay), and every
\* operand occurrence of a name read since (printed, or assigned to another
\* name) had the value and kind last assigned to it.
ThmC11 ==
    fileLines \in AssignPrograms =>
        /\ phase \in {"compile", "execute", "done"}
        /\ Bindings = Expected(Len(trace)).store
        /\ out = Expected(Len(trace)).out

\* x = 1, then x = "s" replaces the numeric binding, then print x shows s
WitC11 ==
    /\ fileLines = <<L_x1, L_xs, L_printx>>
    /\ phase = "done"
    /\ Bindings = [n \in {"x"} |-> [kind |-> "str", data |-> "s"]]
    /\ out = <<"s">>

-----------------------------------------------------------------------------
(* C12 *)

\* the names of up to MaxNameLen characters made of letters, digits and '_'
IdentifierChars == Letters \cup Digits \cup {"_"}
IdentifierNames ==
    {Concat(w) : w \in UNION {[1..n -> IdentifierChars] : n \in 1..MaxNameLen}}

\* C12: in every reachable state of the store every variable name is
\* non-empty and made of letters, digits and '_' only, also after an
\* assignment whose left operand is a quoted string literal.
InvC12 ==
    \A name \in DOMAIN scriptVariables : name \in IdentifierNames

-----------------------------------------------------------------------------
(* C13 *)

WhileLines == {k \in 0..(NumLines - 1) : Kw(k) = "while"}

\* C13: when the 'end' matched to a 'while' has just executed, the line
\* executed next is the while's own line if the most recent test of that
\* while's condition was true, and the line after the 'end' otherwise,
\* wherever the while stands and whatever its body contains.
InvC13 ==
    (phase = "execute" /\ OneBlockPerLine /\ trace # <<>>) =>
        \A w \in WhileLines :
            (w \in DOMAIN lastTest /\ Top(trace) = MatchingEnd(w)) =>
                curRunLineIter = IF lastTest[w] THEN w ELSE MatchingEnd(w) + 1

-----------------------------------------------------------------------------
(* C14 *)

\* the last line evaluated ran through all its tokens
RanToEnd == lastFinalSize # <<>>
\* the number of values on the stack after its last token
FinalSize == lastFinalSize[1]
LineSucceeded == phase \in {"execute", "done"}
NotValid == phase = "runtime_error" /\ errMsg = "Not a valid expression"

\* C14 as stated: a line whose tokens leave exactly one value or none
\* evaluates successfully, and 'Not a valid expression' is raised exactly
\* when they leave two or more.
InvC14 ==
    /\ RanToEnd => /\ FinalSize <= 1 => LineSucceeded
                   /\ FinalSize >= 2 => NotValid
    /\ NotValid => (RanToEnd /\ FinalSize >= 2)

\* C14, amended: a line whose tokens leave exactly one value evaluates
\* successfully, and 'Not a valid expression' is raised exactly when they
\* leave none or two or more.
ThmC14 ==
    /\ RanToEnd => /\ FinalSize = 1 => LineSucceeded
                   /\ FinalSize # 1 => NotValid
    /\ NotValid => (RanToEnd /\ FinalSize # 1)

\* the white-space line of ProgSpaceLine left no value and raised the error
WitC14 ==
    /\ fileLines = ProgSpaceLine
    /\ trace = <<0, 1>>
    /\ RanToEnd /\ FinalSize = 0
    /\ NotValid

-----------------------------------------------------------------------------
(* C15 *)

\* the if that opens the chain header h belongs to
ChainOf(h) == CHOOSE k \in IfLines : h \in Headers(k)

\* the statement the language pairs with the jumping statement on line k:
\* for a branch header the line that closes its branch, for a while its
\* 'end', for the 'end' of a while that while
PairedTargets(k) ==
    CASE Kw(k) \in {"if", "elseif", "else"} -> {BranchClose(ChainOf(k), k)}
      [] Kw(k) = "while" -> {MatchingEnd(k)}
      [] Kw(k) = "end" -> {w \in WhileLines : MatchingEnd(w) = k}
      [] OTHER -> {}

\* C15: in a compiled program with one block statement per line (blank
\* lines anywhere) every reassignment of the program counter made by if,
\* elseif, else, while or end targets an existing run line, which is the
\* statement paired with the jumping statement; every line evaluated is one
\* of the run lines 0..n-1; and no run-time lookup in beginToEndMap or
\* endToBeginMap misses its key.
InvC15 ==
    (CompiledOK /\ OneBlockPerLine) =>
        /\ \A i \in 1..Len(lastJumps) :
              /\ lastJumps[i].to \in 0..(NumLines - 1)
              /\ lastJumps[i].to \in PairedTargets(lastJumps[i].from)
        /\ \A i \in 1..Len(trace) : trace[i] \in 0..(NumLines - 1)
        /\ ~lookupMissed

-----------------------------------------------------------------------------
(* C16 *)

StrictlyIncreasing(seq) == \A i \in 1..(Len(seq) - 1) : seq[i] < seq[i + 1]

\* C16: in a compiled program with one block statement per line every jump
\* taken by if, elseif or else goes strictly forward; so a program without
\* 'while' evaluates its lines in strictly increasing order, each at most
\* once, and Execute ends after at most as many evaluations as there are
\* run lines.
ThmC16 ==
    (CompiledOK /\ OneBlockPerLine) =>
        /\ \A i \in 1..Len(lastJumps) :
              Kw(lastJumps[i].from) \in {"if", "elseif", "else"}
                  => lastJumps[i].to > lastJumps[i].from
        /\ WhileLines = {} =>
              /\ StrictlyIncreasing(trace)
              /\ Len(trace) <= NumLines
              /\ (phase = "execute" /\ trace # <<>>) => curRunLineIter > Top(trace)

\* the chain of ProgElseIf ran to its end: if 0 jumped to the elseif, and
\* else jumped to end
WitC16 ==
    /\ fileLines = ProgElseIf
    /\ phase = "done"
    /\ trace = <<0, 2, 3, 4, 6>>
    /\ lastJumps = <<>>

-----------------------------------------------------------------------------
(* C17 *)

NoIfResult ==
    {"Error evaluating else statement (no if result detected)",
     "Error evaluating elseif statement (no if result detected)"}

====
